---- MODULE Spec2Model ----
(***************************************************************************)
(* Model of main.py: the channel-name normaliser (char_to_ascii,           *)
(* remove_combining, normalize_channel_name) and the /normalize slash      *)
(* command with its confirmation view.                                     *)
(*                                                                         *)
(* A string is a sequence of code points (naturals); ord(c) is c itself.   *)
(* The Unicode character database is tabulated for a fixed alphabet of     *)
(* characters, with the values unicodedata (Unicode 14) gives for them.    *)
(***************************************************************************)
EXTENDS Integers, Sequences, FiniteSets, TLC

\* ---------------------------------------------------------------- bounds
MaxLen == 2        \* longest input string over the whole alphabet
MaxWsLen == 4      \* longest input string over the whitespace alphabet
MaxAsciiLen == 6   \* longest input string over the ASCII alphabet
MaxChannels == 2   \* channels in the guild
MaxRuns == 2       \* invocations of the command

\* ------------------------------------------------------------- alphabet
AsciiChars == {9, 32, 65, 97, 124}          \* TAB, SPACE, 'A', 'a', '|'
NonAsciiChars == {133, 160, 189, 201, 216, 233, 248, 592, 769, 888, 5024,
                  7424, 8230, 8232, 8364, 11375, 9474, 12322, 64257, 65313}
Chars == AsciiChars \cup NonAsciiChars
WsChars == {9, 32, 65, 97, 160, 8232, 9474}
AsciiWsChars == {9, 32, 65, 97}

StringsUpTo(S, n) == UNION {[1..k -> S] : k \in 0..n}
Inputs ==
    StringsUpTo(Chars, MaxLen) \cup StringsUpTo(WsChars, MaxWsLen)
        \cup StringsUpTo(AsciiWsChars, MaxAsciiLen)

\* ------------------------------------------------- Python values / str
None == <<-1>>          \* the None object (no code point is negative)
Raised == <<-2>>        \* an exception escaping the function
ValueError == <<-3>>    \* unicodedata.name(ch) raising ValueError
NoMatch == 0 - 1        \* END_LETTER_RE.search(name) returning None

Truthy(x) == x # None /\ x # <<>>
AllAscii(s) == \A i \in 1..Len(s) : s[i] < 128
IsUpperAZ(c) == c \in 65..90
IsLowerAZ(c) == c \in 97..122
\* str.lower / str.upper / str.isalpha, on the ASCII strings they are applied to
Lower(s) == [i \in 1..Len(s) |-> IF IsUpperAZ(s[i]) THEN s[i] + 32 ELSE s[i]]
Upper(s) == [i \in 1..Len(s) |-> IF IsLowerAZ(s[i]) THEN s[i] - 32 ELSE s[i]]
IsAlpha(s) == Len(s) > 0 /\ \A i \in 1..Len(s) : IsUpperAZ(s[i]) \/ IsLowerAZ(s[i])
\* `sub in s`
Contains(s, sub) ==
    \E i \in 1..(Len(s) - Len(sub) + 1) : SubSeq(s, i, i + Len(sub) - 1) = sub

\* str.isspace(): what \s matches and what str.strip() removes
Whitespace == (9..13) \cup (28..32) \cup {133, 160, 5760} \cup (8192..8202)
              \cup {8232, 8233, 8239, 8287, 12288}
IsSpace(c) == c \in Whitespace

\* ------------------------------------------- Unicode character database
\* unicodedata.normalize("NFKC", ch)
NFKC(ch) ==
    CASE ch = 160 -> <<32>>   \* U+00A0 NO-BREAK SPACE
      [] ch = 189 -> <<49, 8260, 50>>   \* U+00BD VULGAR FRACTION ONE HALF
      [] ch = 8230 -> <<46, 46, 46>>   \* U+2026 HORIZONTAL ELLIPSIS
      [] ch = 64257 -> <<102, 105>>   \* U+FB01 LATIN SMALL LIGATURE FI
      [] ch = 65313 -> <<65>>   \* U+FF21 FULLWIDTH LATIN CAPITAL LETTER A
      [] OTHER -> <<ch>>

\* unicodedata.normalize("NFKD", ch)
NFKD(ch) ==
    CASE ch = 160 -> <<32>>   \* U+00A0 NO-BREAK SPACE
      [] ch = 189 -> <<49, 8260, 50>>   \* U+00BD VULGAR FRACTION ONE HALF
      [] ch = 201 -> <<69, 769>>   \* U+00C9 LATIN CAPITAL LETTER E WITH ACUTE
      [] ch = 233 -> <<101, 769>>   \* U+00E9 LATIN SMALL LETTER E WITH ACUTE
      [] ch = 8230 -> <<46, 46, 46>>   \* U+2026 HORIZONTAL ELLIPSIS
      [] ch = 64257 -> <<102, 105>>   \* U+FB01 LATIN SMALL LIGATURE FI
      [] ch = 65313 -> <<65>>   \* U+FF21 FULLWIDTH LATIN CAPITAL LETTER A
      [] OTHER -> <<ch>>

\* unicodedata.name(ch); ValueError when the character has no name
UnicodeName(ch) ==
    CASE ch = 160 ->   \* U+00A0 NO-BREAK SPACE
         <<78, 79, 45, 66, 82, 69, 65, 75, 32, 83, 80, 65, 67, 69>>
      [] ch = 189 ->   \* U+00BD VULGAR FRACTION ONE HALF
         <<86, 85, 76, 71, 65, 82, 32, 70, 82, 65, 67, 84, 73, 79, 78, 32, 79, 78, 69, 32, 72, 65, 76, 70>>
      [] ch = 201 ->   \* U+00C9 LATIN CAPITAL LETTER E WITH ACUTE
         <<76, 65, 84, 73, 78, 32, 67, 65, 80, 73, 84, 65, 76, 32, 76, 69, 84, 84, 69, 82, 32, 69, 32, 87, 73, 84, 72, 32, 65, 67, 85, 84, 69>>
      [] ch = 216 ->   \* U+00D8 LATIN CAPITAL LETTER O WITH STROKE
         <<76, 65, 84, 73, 78, 32, 67, 65, 80, 73, 84, 65, 76, 32, 76, 69, 84, 84, 69, 82, 32, 79, 32, 87, 73, 84, 72, 32, 83, 84, 82, 79, 75, 69>>
      [] ch = 233 ->   \* U+00E9 LATIN SMALL LETTER E WITH ACUTE
         <<76, 65, 84, 73, 78, 32, 83, 77, 65, 76, 76, 32, 76, 69, 84, 84, 69, 82, 32, 69, 32, 87, 73, 84, 72, 32, 65, 67, 85, 84, 69>>
      [] ch = 248 ->   \* U+00F8 LATIN SMALL LETTER O WITH STROKE
         <<76, 65, 84, 73, 78, 32, 83, 77, 65, 76, 76, 32, 76, 69, 84, 84, 69, 82, 32, 79, 32, 87, 73, 84, 72, 32, 83, 84, 82, 79, 75, 69>>
      [] ch = 592 ->   \* U+0250 LATIN SMALL LETTER TURNED A
         <<76, 65, 84, 73, 78, 32, 83, 77, 65, 76, 76, 32, 76, 69, 84, 84, 69, 82, 32, 84, 85, 82, 78, 69, 68, 32, 65>>
      [] ch = 769 ->   \* U+0301 COMBINING ACUTE ACCENT
         <<67, 79, 77, 66, 73, 78, 73, 78, 71, 32, 65, 67, 85, 84, 69, 32, 65, 67, 67, 69, 78, 84>>
      [] ch = 5024 ->   \* U+13A0 CHEROKEE LETTER A
         <<67, 72, 69, 82, 79, 75, 69, 69, 32, 76, 69, 84, 84, 69, 82, 32, 65>>
      [] ch = 7424 ->   \* U+1D00 LATIN LETTER SMALL CAPITAL A
         <<76, 65, 84, 73, 78, 32, 76, 69, 84, 84, 69, 82, 32, 83, 77, 65, 76, 76, 32, 67, 65, 80, 73, 84, 65, 76, 32, 65>>
      [] ch = 8230 ->   \* U+2026 HORIZONTAL ELLIPSIS
         <<72, 79, 82, 73, 90, 79, 78, 84, 65, 76, 32, 69, 76, 76, 73, 80, 83, 73, 83>>
      [] ch = 8232 ->   \* U+2028 LINE SEPARATOR
         <<76, 73, 78, 69, 32, 83, 69, 80, 65, 82, 65, 84, 79, 82>>
      [] ch = 8364 ->   \* U+20AC EURO SIGN
         <<69, 85, 82, 79, 32, 83, 73, 71, 78>>
      [] ch = 11375 ->   \* U+2C6F LATIN CAPITAL LETTER TURNED A
         <<76, 65, 84, 73, 78, 32, 67, 65, 80, 73, 84, 65, 76, 32, 76, 69, 84, 84, 69, 82, 32, 84, 85, 82, 78, 69, 68, 32, 65>>
      [] ch = 9474 ->   \* U+2502 BOX DRAWINGS LIGHT VERTICAL
         <<66, 79, 88, 32, 68, 82, 65, 87, 73, 78, 71, 83, 32, 76, 73, 71, 72, 84, 32, 86, 69, 82, 84, 73, 67, 65, 76>>
      [] ch = 12322 ->   \* U+3022 HANGZHOU NUMERAL TWO
         <<72, 65, 78, 71, 90, 72, 79, 85, 32, 78, 85, 77, 69, 82, 65, 76, 32, 84, 87, 79>>
      [] ch = 64257 ->   \* U+FB01 LATIN SMALL LIGATURE FI
         <<76, 65, 84, 73, 78, 32, 83, 77, 65, 76, 76, 32, 76, 73, 71, 65, 84, 85, 82, 69, 32, 70, 73>>
      [] ch = 65313 ->   \* U+FF21 FULLWIDTH LATIN CAPITAL LETTER A
         <<70, 85, 76, 76, 87, 73, 68, 84, 72, 32, 76, 65, 84, 73, 78, 32, 67, 65, 80, 73, 84, 65, 76, 32, 76, 69, 84, 84, 69, 82, 32, 65>>
      [] ch \in {133, 888} -> ValueError   \* U+0085 (control), U+0378 (unassigned): no name
\* unicodedata.category(c)[0] == "M"
IsMark(c) == c = 769                       \* U+0301 is Mn

LETTER == <<76, 69, 84, 84, 69, 82>>
SMALL == <<83, 77, 65, 76, 76>>
CAPITAL == <<67, 65, 80, 73, 84, 65, 76>>

\* ----------------------------------------------------------- regex, l.24
\* END_LETTER_RE.search(name) for r"LETTER.*?([A-Z])$": the leftmost start
\* p of the literal, then the shortest run of non-newline characters after
\* which one [A-Z] stands at the end of the name.  The value is group(1).
LiteralAt(name, p) == p + 5 <= Len(name) /\ SubSeq(name, p, p + 5) = LETTER
MatchEndsFrom(name, p) ==
    {q \in (p + 6)..Len(name) :
        /\ \A k \in (p + 6)..(q - 1) : name[k] # 10
        /\ IsUpperAZ(name[q])
        /\ q = Len(name)}
MatchStarts(name) ==
    {p \in 1..Len(name) : LiteralAt(name, p) /\ MatchEndsFrom(name, p) # {}}
Min(S) == CHOOSE x \in S : \A y \in S : x <= y
END_LETTER_RE(name) ==
    IF MatchStarts(name) = {} THEN NoMatch
    ELSE name[Min(MatchEndsFrom(name, Min(MatchStarts(name))))]

\* ------------------------------------------------ char_to_ascii, l.26-59
\* "".join(c for c in s if unicodedata.category(c)[0] != "M")
StripMarks(s) == SelectSeq(s, LAMBDA c : ~IsMark(c))

\* 1) NFKC
StepNFKC(ch) ==
    LET nfkc == NFKC(ch)
    IN  IF Len(nfkc) = 1 /\ nfkc[1] < 128 THEN nfkc ELSE None

\* 2) NFKD + strip combining marks
StepNFKD_AnyLength(ch) ==
    LET stripped == StripMarks(NFKD(ch))
    IN  IF stripped # <<>>
        THEN (IF IsAlpha(stripped) THEN Lower(stripped) ELSE stripped)
        ELSE None
StepNFKD_SingleOnly(ch) ==
    LET stripped == StripMarks(NFKD(ch))
    IN  IF Len(stripped) = 1 /\ AllAscii(stripped)
        THEN (IF IsAlpha(stripped) THEN Lower(stripped) ELSE stripped)
        ELSE None
StepNFKD(ch) ==
    LET stripped == StripMarks(NFKD(ch))
    IN  IF stripped # <<>> /\ AllAscii(stripped)
        THEN (IF IsAlpha(stripped) THEN Lower(stripped) ELSE stripped)
        ELSE None

\* case of the base letter, l.51-57
NameCase_CapitalWins(name, base) ==
    LET low_flag == Contains(name, SMALL) /\ ~Contains(name, CAPITAL)
        cap_flag == Contains(name, CAPITAL)
    IN  IF low_flag THEN Lower(<<base>>)
        ELSE IF cap_flag THEN Upper(<<base>>)
        ELSE Lower(<<base>>)
NameCase(name, base) ==
    LET low_flag == Contains(name, SMALL) /\ ~Contains(name, CAPITAL)
        cap_flag == Contains(name, CAPITAL) /\ ~Contains(name, SMALL)
    IN  IF low_flag THEN Lower(<<base>>)
        ELSE IF cap_flag THEN Upper(<<base>>)
        ELSE Lower(<<base>>)

\* 3) fallback via Unicode names, l.43-59
StepName_Uncaught(ch) ==
    LET name == UnicodeName(ch)
    IN  IF name = ValueError THEN Raised
        ELSE LET base == END_LETTER_RE(name)
             IN  IF base # NoMatch THEN NameCase(name, base) ELSE None
StepName(ch) ==
    LET name == UnicodeName(ch)
    IN  IF name = ValueError THEN None
        ELSE LET base == END_LETTER_RE(name)
             IN  IF base # NoMatch THEN NameCase(name, base) ELSE None

char_to_ascii(ch) ==
    IF ch < 128 THEN <<ch>>
    ELSE IF StepNFKC(ch) # None THEN StepNFKC(ch)
    ELSE IF StepNFKD(ch) # None THEN StepNFKD(ch)
    ELSE StepName(ch)

\* --------------------------------------------- remove_combining, l.61-63
remove_combining(ch) == StripMarks(NFKD(ch))

\* ---------------------------------- normalize_channel_name, l.65-92
\* One iteration of the loop: the branch taken and the string appended.
LoopBody_LowerAscii(ch) ==
    IF ch < 128 THEN [via |-> "ascii", piece |-> Lower(<<ch>>)]
    ELSE LET mapped == char_to_ascii(ch)
             rc == remove_combining(ch)
         IN  IF mapped = Raised THEN [via |-> "raise", piece |-> Raised]
             ELSE IF Truthy(mapped) THEN [via |-> "mapped", piece |-> mapped]
             ELSE IF rc # <<>> /\ AllAscii(rc) THEN [via |-> "stripped", piece |-> rc]
             ELSE [via |-> "verbatim", piece |-> <<ch>>]
LoopBody(ch) ==
    IF ch < 128 THEN [via |-> "ascii", piece |-> <<ch>>]
    ELSE LET mapped == char_to_ascii(ch)
             rc == remove_combining(ch)
         IN  IF mapped = Raised THEN [via |-> "raise", piece |-> Raised]
             ELSE IF Truthy(mapped) THEN [via |-> "mapped", piece |-> mapped]
             ELSE IF rc # <<>> /\ AllAscii(rc) THEN [via |-> "stripped", piece |-> rc]
             ELSE [via |-> "verbatim", piece |-> <<ch>>]

OutList(original) == [i \in 1..Len(original) |-> LoopBody(original[i]).piece]
ViaList(original) == [i \in 1..Len(original) |-> LoopBody(original[i]).via]

\* "".join(out)
RECURSIVE Join(_)
Join(out) == IF out = <<>> THEN <<>> ELSE Head(out) \o Join(Tail(out))

\* result.replace(old, new) for one-character old and new
Replace(s, old, new) == [i \in 1..Len(s) |-> IF s[i] = old THEN new ELSE s[i]]
BoxVertical == 9474      \* U+2502, first argument of replace, l.87
HangzhouTwo == 12322     \* U+3022, second argument of replace, l.87
Substitute(s) == Replace(s, BoxVertical, HangzhouTwo)

\* re.sub(r"\s{min,}", " ", s): scan left to right; at a run of at least
\* `min` whitespace characters consume the run (all of it when greedy, `min`
\* of it when lazy) and emit one space; otherwise copy the character.
RunEnd(s, i) ==
    CHOOSE j \in i..Len(s) :
        /\ \A k \in i..j : IsSpace(s[k])
        /\ (j = Len(s) \/ ~IsSpace(s[j + 1]))
RECURSIVE Scan(_, _, _, _)
Scan(s, i, min, greedy) ==
    IF i > Len(s) THEN <<>>
    ELSE IF IsSpace(s[i]) /\ RunEnd(s, i) - i + 1 >= min
         THEN LET j == IF greedy THEN RunEnd(s, i) ELSE i + min - 1
              IN  <<32>> \o Scan(s, j + 1, min, greedy)
         ELSE <<s[i]>> \o Scan(s, i + 1, min, greedy)
CollapseSpaces_Lazy(s) == Scan(s, 1, 2, FALSE)
CollapseSpaces(s) == Scan(s, 1, 2, TRUE)

\* str.strip()
Strip(s) ==
    LET keep == {i \in 1..Len(s) : ~IsSpace(s[i])}
    IN  IF keep = {} THEN <<>>
        ELSE SubSeq(s, Min(keep), CHOOSE x \in keep : \A y \in keep : y <= x)

normalize_channel_name(original) ==
    LET out == OutList(original)
    IN  IF \E i \in 1..Len(out) : out[i] = Raised THEN Raised
        ELSE Strip(CollapseSpaces(Substitute(Join(out))))

\* ======================================================================
\* State
\* ======================================================================
VARIABLES
    \* one call of normalize_channel_name, and the call a later run of the
    \* command makes on the name it produced
    original,     \* the argument
    out,          \* the list `out` when the loop ends
    via,          \* for each character, the branch of the loop that emitted it
    result,       \* the value returned
    again,        \* normalize_channel_name(result)
    phase,        \* "input", "returned", "renormalized"
    \* the guild and one run of the /normalize command
    names,        \* ch.name of every channel of the guild
    cpc,          \* "idle", "wait" (at `await view.wait()`), "loop", "done"
    run,          \* invocations so far
    hasPerm,      \* interaction.user.guild_permissions.manage_channels
    mode,         \* "none" (mode is None), "preview", "now"
    to_change,    \* list of (ch, ch.name, new)
    idx,          \* entries of to_change the rename loop has gone through
    renamed,      \* list of (old, new)
    failed,       \* list of (old, new, str(e))
    confirmed,    \* view.confirmed
    finished,     \* the view has stopped (stop() or timeout)
    inflight,     \* button callbacks suspended at `await edit_message`
    edits,        \* channels ch.edit was called on, in call order
    sent,         \* last message sent for this run
    ending,       \* the return / end of the command this run took
    history       \* what happened to the view this run

normVars == <<original, out, via, result, again, phase>>
cmdVars == <<names, cpc, run, hasPerm, mode, to_change, idx, renamed, failed,
             confirmed, finished, inflight, edits, sent, ending, history>>
vars == <<normVars, cmdVars>>

Channels == 1..MaxChannels
Author == 1                 \* interaction.user.id of the run
Users == {1, 2}
Buttons == {"confirm", "cancel"}
Modes == {"none", "preview", "now"}
\* channel names a guild starts with: "a", "é", "│", "a  a"
NameSet == {<<97>>, <<233>>, <<9474>>, <<97, 32, 32, 97>>}

NoHistory ==
    [authorConfirm |-> FALSE, authorCancel |-> FALSE, otherPress |-> FALSE,
     timedOut |-> FALSE]

NormIdle ==
    /\ original = <<>> /\ out = <<>> /\ via = <<>>
    /\ result = <<>> /\ again = <<>> /\ phase = "input"

CmdIdle ==
    /\ cpc = "idle" /\ run = 0 /\ hasPerm = FALSE /\ mode = "none"
    /\ to_change = <<>> /\ idx = 0 /\ renamed = <<>> /\ failed = <<>>
    /\ confirmed = FALSE /\ finished = FALSE /\ inflight = {}
    /\ edits = <<>> /\ sent = "" /\ ending = "" /\ history = NoHistory

\* ======================================================================
\* normalize_channel_name as a called function
\* ======================================================================
InitNorm ==
    /\ original \in Inputs
    /\ out = <<>> /\ via = <<>> /\ result = <<>> /\ again = <<>>
    /\ phase = "input"
    /\ names = [ch \in Channels |-> <<97>>]
    /\ CmdIdle

\* l.65-92
Call ==
    /\ phase = "input"
    /\ out' = OutList(original)
    /\ via' = ViaList(original)
    /\ result' = normalize_channel_name(original)
    /\ phase' = "returned"
    /\ UNCHANGED <<original, again, cmdVars>>

\* l.163 of a later run, on the channel that now carries `result` as its name
CallOnResult ==
    /\ phase = "returned"
    /\ result # Raised
    /\ again' = normalize_channel_name(result)
    /\ phase' = "renormalized"
    /\ UNCHANGED <<original, out, via, result, cmdVars>>

NextNorm == Call \/ CallOnResult
SpecNorm == InitNorm /\ [][NextNorm]_vars

\* ======================================================================
\* The /normalize command, l.143-217, and ConfirmRenameView, l.115-140
\* ======================================================================
Init ==
    /\ NormIdle
    /\ names \in [Channels -> NameSet]
    /\ CmdIdle

\* l.161-165
ToChange(nm) ==
    SelectSeq([ch \in Channels |->
                  [ch |-> ch, old |-> nm[ch], new |-> normalize_channel_name(nm[ch])]],
              LAMBDA e : e.old # e.new)

\* l.148-193: from the invocation to `await view.wait()` or an early return
Invoke(perm, m) ==
    /\ cpc \in {"idle", "done"}
    /\ run < MaxRuns
    /\ run' = run + 1
    /\ hasPerm' = perm
    /\ mode' = m
    /\ idx' = 0 /\ renamed' = <<>> /\ failed' = <<>> /\ edits' = <<>>
    /\ confirmed' = FALSE /\ finished' = FALSE /\ inflight' = {}
    /\ history' = NoHistory
    /\ IF ~perm
       THEN /\ to_change' = <<>>
            /\ sent' = "need_permission" /\ ending' = "no_permission" /\ cpc' = "done"
       ELSE /\ to_change' = ToChange(names)
            /\ IF to_change' = <<>>
               THEN sent' = "nothing_to_do" /\ ending' = "nothing" /\ cpc' = "done"
               ELSE IF m = "preview"
               THEN sent' = "preview" /\ ending' = "preview" /\ cpc' = "done"
               ELSE IF m # "now"
               THEN sent' = "usage" /\ ending' = "usage" /\ cpc' = "done"
               ELSE sent' = "confirm_prompt" /\ ending' = "" /\ cpc' = "wait"
    /\ UNCHANGED <<names, normVars>>

\* A button press reaching the view: interaction_check (l.121-125), then the
\* callback up to its `await interaction.response.edit_message` (l.130, l.138).
Press_NoInteractionCheck(u, b) ==
    /\ cpc = "wait" /\ ~finished
    /\ confirmed' = (b = "confirm")
    /\ inflight' = inflight \cup {b}
    /\ history' = IF u # Author THEN [history EXCEPT !.otherPress = TRUE]
                  ELSE IF b = "confirm" THEN [history EXCEPT !.authorConfirm = TRUE]
                  ELSE [history EXCEPT !.authorCancel = TRUE]
    /\ UNCHANGED <<names, cpc, run, hasPerm, mode, to_change, idx, renamed,
                   failed, finished, edits, sent, ending, normVars>>
Press(u, b) ==
    /\ cpc = "wait" /\ ~finished
    /\ IF u # Author
       THEN /\ history' = [history EXCEPT !.otherPress = TRUE]
            /\ UNCHANGED <<confirmed, inflight>>
       ELSE /\ confirmed' = (b = "confirm")
            /\ inflight' = inflight \cup {b}
            /\ history' = IF b = "confirm"
                          THEN [history EXCEPT !.authorConfirm = TRUE]
                          ELSE [history EXCEPT !.authorCancel = TRUE]
    /\ UNCHANGED <<names, cpc, run, hasPerm, mode, to_change, idx, renamed,
                   failed, finished, edits, sent, ending, normVars>>

\* edit_message returns and the callback calls self.stop() (l.134, l.140)
CallbackStops(b) ==
    /\ b \in inflight
    /\ inflight' = inflight \ {b}
    /\ finished' = TRUE
    /\ UNCHANGED <<names, cpc, run, hasPerm, mode, to_change, idx, renamed,
                   failed, confirmed, edits, sent, ending, history, normVars>>

\* edit_message raises: the callback ends before self.stop()
CallbackRaises(b) ==
    /\ b \in inflight
    /\ inflight' = inflight \ {b}
    /\ UNCHANGED <<names, cpc, run, hasPerm, mode, to_change, idx, renamed,
                   failed, confirmed, finished, edits, sent, ending, history,
                   normVars>>

\* the view's timeout (l.116) expires
Timeout ==
    /\ cpc = "wait" /\ ~finished
    /\ finished' = TRUE
    /\ history' = [history EXCEPT !.timedOut = TRUE]
    /\ UNCHANGED <<names, cpc, run, hasPerm, mode, to_change, idx, renamed,
                   failed, confirmed, inflight, edits, sent, ending, normVars>>

\* view.wait() returns, l.193-200
Resume ==
    /\ cpc = "wait" /\ finished
    /\ IF ~confirmed
       THEN sent' = "cancelled" /\ ending' = "cancelled" /\ cpc' = "done"
       ELSE sent' = sent /\ ending' = ending /\ cpc' = "loop"
    /\ renamed' = <<>> /\ failed' = <<>> /\ idx' = 0
    /\ UNCHANGED <<names, run, hasPerm, mode, to_change, confirmed, finished,
                   inflight, edits, history, normVars>>

\* one iteration of the rename loop, l.201-207; ok: ch.edit does not raise
Rename_NoTry(ok) ==
    /\ cpc = "loop" /\ idx < Len(to_change)
    /\ LET e == to_change[idx + 1]
       IN  /\ edits' = Append(edits, e.ch)
           /\ idx' = idx + 1
           /\ IF ok
              THEN /\ names' = [names EXCEPT ![e.ch] = e.new]
                   /\ renamed' = Append(renamed, <<e.old, e.new>>)
                   /\ UNCHANGED <<failed, cpc, ending>>
              ELSE /\ cpc' = "done" /\ ending' = "exception"
                   /\ UNCHANGED <<names, renamed, failed>>
    /\ UNCHANGED <<run, hasPerm, mode, to_change, confirmed, finished, inflight,
                   sent, history, normVars>>
Rename(ok) ==
    /\ cpc = "loop" /\ idx < Len(to_change)
    /\ LET e == to_change[idx + 1]
       IN  /\ edits' = Append(edits, e.ch)
           /\ idx' = idx + 1
           /\ IF ok
              THEN /\ names' = [names EXCEPT ![e.ch] = e.new]
                   /\ renamed' = Append(renamed, <<e.old, e.new>>)
                   /\ UNCHANGED failed
              ELSE /\ failed' = Append(failed, <<e.old, e.new, <<>>>>)
                   /\ UNCHANGED <<names, renamed>>
           /\ UNCHANGED <<cpc, ending>>
    /\ UNCHANGED <<run, hasPerm, mode, to_change, confirmed, finished, inflight,
                   sent, history, normVars>>

\* the loop is over: the summary is built and sent, l.209-217
Summary ==
    /\ cpc = "loop" /\ idx = Len(to_change)
    /\ sent' = "summary" /\ ending' = "summary" /\ cpc' = "done"
    /\ UNCHANGED <<names, run, hasPerm, mode, to_change, idx, renamed, failed,
                   confirmed, finished, inflight, edits, history, normVars>>

Next ==
    \/ \E perm \in BOOLEAN, m \in Modes : Invoke(perm, m)
    \/ \E u \in Users, b \in Buttons : Press(u, b)
    \/ \E b \in Buttons : CallbackStops(b)
    \/ \E b \in Buttons : CallbackRaises(b)
    \/ Timeout
    \/ Resume
    \/ \E ok \in BOOLEAN : Rename(ok)
    \/ Summary
Spec == Init /\ [][Next]_vars

\* ======================================================================
\* Properties of normalize_channel_name (under SpecNorm)
\* ======================================================================
Returned == phase # "input"
Positions == 1..Len(original)
IsCodePoint(c) == c \in Nat
IsString(s) == \A k \in 1..Len(s) : IsCodePoint(s[k])

\* C1: normalize_channel_name is total: on every input (empty, lone
\* combining marks, unnamed and unassigned characters) it returns a string
\* and raises nothing; an unmapped (None) result of char_to_ascii, the
\* caught name-lookup failure included, never reaches the caller: the
\* original character is emitted in its place.
C1_Total ==
    Returned =>
        /\ result # Raised
        /\ IsString(result)
        /\ \A i \in Positions :
              /\ out[i] # None /\ out[i] # Raised /\ IsString(out[i])
              /\ (original[i] >= 128 /\ char_to_ascii(original[i]) = None)
                    => out[i] = <<original[i]>>
C1_Witness ==
    /\ phase = "returned"
    /\ original = <<888, 769>>          \* unassigned U+0378, lone U+0301
    /\ UnicodeName(888) = ValueError
    /\ char_to_ascii(769) = None
    /\ result = <<888, 769>>

\* What C2 describes, stated without the scanner: a whitespace character
\* survives if it is alone, the first of a longer run becomes one space, the
\* rest of the run vanishes; then leading and trailing whitespace is dropped.
RunFirst(s, i) == i = 1 \/ ~IsSpace(s[i - 1])
RunLast(s, i) == i = Len(s) \/ ~IsSpace(s[i + 1])
RefPiece(s, i) ==
    IF ~IsSpace(s[i]) THEN <<s[i]>>
    ELSE IF RunFirst(s, i) /\ RunLast(s, i) THEN <<s[i]>>
    ELSE IF RunFirst(s, i) THEN <<32>>
    ELSE <<>>
RefCollapse(s) == Join([i \in 1..Len(s) |-> RefPiece(s, i)])
RECURSIVE DropLeading(_)
DropLeading(s) ==
    IF s # <<>> /\ IsSpace(Head(s)) THEN DropLeading(Tail(s)) ELSE s
RECURSIVE DropTrailing(_)
DropTrailing(s) ==
    IF s # <<>> /\ IsSpace(s[Len(s)])
    THEN DropTrailing(SubSeq(s, 1, Len(s) - 1)) ELSE s
RefTrim(s) == DropTrailing(DropLeading(s))

\* C2: for all-ASCII input the per-character stage emits every character
\* unchanged, the substitution alters nothing, and the result is the input
\* with each maximal run of two or more whitespace characters replaced by
\* one space and leading/trailing whitespace removed.
C2_AsciiOnlyWhitespaceChanges ==
    (Returned /\ AllAscii(original)) =>
        /\ \A i \in Positions : out[i] = <<original[i]>>
        /\ Substitute(Join(out)) = original
        /\ result = RefTrim(RefCollapse(original))
C2_Witness ==
    /\ phase = "returned"
    /\ original = <<32, 97, 32, 32, 32, 65>>      \* " a   A"
    /\ result = <<97, 32, 65>>                     \* "a A"

\* C3: ASCII-closure: a replacement returned by the NFKC step, the NFKD
\* step or the name step, or accepted from remove_combining, is non-empty
\* and all below 128; so a non-ASCII character of `out` is the input
\* character of that position, emitted verbatim.
IsAsciiReplacement(r) == r # <<>> /\ IsString(r) /\ AllAscii(r)
C3_AsciiClosure ==
    Returned =>
        \A i \in Positions :
            /\ original[i] >= 128 =>
                  \A r \in {StepNFKC(original[i]), StepNFKD(original[i]),
                            StepName(original[i])} :
                      r # None => IsAsciiReplacement(r)
            /\ via[i] \in {"mapped", "stripped"} => IsAsciiReplacement(out[i])
            /\ (\E k \in 1..Len(out[i]) : out[i][k] >= 128)
                  => out[i] = <<original[i]>>
C3_Witness ==
    /\ phase = "returned"
    /\ original = <<64257, 189>>        \* U+FB01 ligature fi, U+00BD one half
    /\ out = <<<<102, 105>>, <<189>>>>
    /\ via = <<"mapped", "verbatim">>

\* C4: the post-pass takes U+3022 as the glyph to replace and U+2502 as
\* its replacement, so no U+3022 is left in the result.
C4_NoHangzhouTwoRemains ==
    Returned =>
        /\ \A k \in 1..Len(result) : result[k] # 12322
        /\ result = Strip(CollapseSpaces(Replace(Join(out), 12322, 9474)))

\* The name step is reached and its pattern matched.
NameStepMatches(ch) ==
    /\ ch >= 128
    /\ StepNFKC(ch) = None
    /\ StepNFKD(ch) = None
    /\ UnicodeName(ch) # ValueError
    /\ END_LETTER_RE(UnicodeName(ch)) # NoMatch

\* C5: in the name step the case of the extracted base letter follows from
\* the name alone: lower with SMALL and no CAPITAL, upper with CAPITAL and
\* no SMALL, lower when the name has both or neither; the step returns a
\* letter in every one of these cases.
ExpectedCase(name, base) ==
    LET small == Contains(name, SMALL)
        capital == Contains(name, CAPITAL)
    IN  CASE small /\ ~capital -> base + 32
          [] capital /\ ~small -> base
          [] small /\ capital -> base + 32
          [] ~small /\ ~capital -> base + 32
C5_CaseFromName ==
    Returned =>
        \A i \in Positions :
            NameStepMatches(original[i]) =>
                LET name == UnicodeName(original[i])
                IN  /\ IsUpperAZ(END_LETTER_RE(name))
                    /\ via[i] = "mapped"
                    /\ out[i] = <<ExpectedCase(name, END_LETTER_RE(name))>>
C5_Witness ==
    /\ phase = "returned"
    /\ original = <<7424, 11375>>   \* SMALL CAPITAL A (both), CAPITAL ... TURNED A
    /\ NameStepMatches(7424) /\ NameStepMatches(11375)
    /\ out = <<<<97>>, <<65>>>>

\* C6: the name step maps a character only when its name contains LETTER
\* and ends in a one-letter word (an uppercase Latin letter preceded by a
\* space); it returns that letter, and a name whose last word is longer
\* (... WITH GRAVE, ... WITH STROKE) is unmapped.
EndsInOneLetterWord(name) ==
    /\ Len(name) >= 2
    /\ IsUpperAZ(name[Len(name)])
    /\ name[Len(name) - 1] = 32
C6_OnlyFinalLetterToken ==
    Returned =>
        \A i \in Positions :
            (/\ original[i] >= 128
             /\ StepNFKC(original[i]) = None
             /\ StepNFKD(original[i]) = None
             /\ UnicodeName(original[i]) # ValueError) =>
                LET name == UnicodeName(original[i])
                IN  IF Contains(name, LETTER) /\ EndsInOneLetterWord(name)
                    THEN Lower(out[i]) = Lower(<<name[Len(name)]>>)
                    ELSE via[i] = "verbatim"

\* the remove_combining fallback of l.77-80 would accept this character
StripperAccepts(ch) ==
    remove_combining(ch) # <<>> /\ AllAscii(remove_combining(ch))

\* C10 as stated: the fallback is never taken, and a character whose
\* mark-stripped NFKD form is non-empty ASCII is mapped by char_to_ascii,
\* lower-cased when alphabetic.
C10_AlwaysLowercased ==
    Returned =>
        \A i \in Positions :
            original[i] >= 128 =>
                /\ via[i] # "stripped"
                /\ char_to_ascii(original[i]) = None
                      => (~StripperAccepts(original[i]) /\ out[i] = <<original[i]>>)
                /\ StripperAccepts(original[i]) =>
                      LET rc == remove_combining(original[i])
                      IN  /\ via[i] = "mapped"
                          /\ out[i] = IF IsAlpha(rc) THEN Lower(rc) ELSE rc

\* C10 (amended): the fallback is never taken: when char_to_ascii returns
\* None, remove_combining(ch) is empty or holds a non-ASCII character and
\* the character is emitted verbatim; a character whose mark-stripped NFKD
\* form is non-empty ASCII is mapped by char_to_ascii itself: by the NFKC
\* step with its case kept when its NFKC form is one ASCII character,
\* otherwise by the NFKD step, lower-cased when alphabetic.
C10_FallbackNeverTaken ==
    Returned =>
        \A i \in Positions :
            original[i] >= 128 =>
                /\ via[i] # "stripped"
                /\ char_to_ascii(original[i]) = None
                      => (~StripperAccepts(original[i]) /\ out[i] = <<original[i]>>)
                /\ StripperAccepts(original[i]) =>
                      LET rc == remove_combining(original[i])
                          nfkc == NFKC(original[i])
                      IN  /\ via[i] = "mapped"
                          /\ out[i] = IF Len(nfkc) = 1 /\ nfkc[1] < 128 THEN nfkc
                                      ELSE IF IsAlpha(rc) THEN Lower(rc)
                                      ELSE rc
C10_Witness ==
    /\ phase = "returned"
    /\ original = <<65313, 8230>>   \* FULLWIDTH CAPITAL A, HORIZONTAL ELLIPSIS
    /\ StripperAccepts(65313) /\ StripperAccepts(8230)
    /\ out = <<<<65>>, <<46, 46, 46>>>>

\* C9: normalize_channel_name is idempotent: every character of a result is
\* a fixed point of the per-character stage, a result holds no U+2502 (the
\* glyph the substitution replaces), no run of two or more whitespace
\* characters and no leading or trailing whitespace; so the name a rename
\* produced is not selected (ch.name != new, l.164) by a later run.
C9_Idempotent ==
    /\ Returned =>
          /\ \A k \in 1..Len(result) :
                /\ LoopBody(result[k]).piece = <<result[k]>>
                /\ result[k] # BoxVertical
                /\ k < Len(result) => ~(IsSpace(result[k]) /\ IsSpace(result[k + 1]))
          /\ result # <<>> => (~IsSpace(result[1]) /\ ~IsSpace(result[Len(result)]))
    /\ phase = "renormalized" => again = result
C9_Witness ==
    /\ phase = "renormalized"
    /\ original = <<160, 8232, 9474, 65>>     \* NBSP, U+2028, U+2502, 'A'
    /\ result = <<HangzhouTwo, 65>>
    /\ again = result

\* ======================================================================
\* Properties of the /normalize command (under Spec)
\* ======================================================================
Count(s, x) == Cardinality({k \in 1..Len(s) : s[k] = x})
Pairs(s) == [k \in 1..Len(s) |-> <<s[k][1], s[k][2]>>]
Attempted == [k \in 1..idx |-> <<to_change[k].old, to_change[k].new>>]
LoopEntered == cpc = "loop" \/ (cpc = "done" /\ ending \in {"summary", "exception"})

\* C7: once confirmed, the rename loop attempts every entry of to_change
\* once, in list order; a raising ch.edit does not stop the later attempts;
\* every attempted entry is in exactly one of renamed and failed, so at the
\* end len(renamed) + len(failed) = len(to_change) and the summary is sent.
C7_FailureIsolation ==
    LoopEntered =>
        /\ idx <= Len(to_change)
        /\ edits = [k \in 1..idx |-> to_change[k].ch]
        /\ Len(renamed) + Len(failed) = idx
        /\ \A k \in 1..idx :
              Count(Attempted, Attempted[k])
                 = Count(renamed, Attempted[k]) + Count(Pairs(failed), Attempted[k])
        /\ cpc = "done" =>
              /\ idx = Len(to_change)
              /\ sent = "summary"
C7_Witness ==
    /\ cpc = "done" /\ ending = "summary"
    /\ Len(to_change) = 2
    /\ edits = <<1, 2>>
    /\ Len(failed) = 1 /\ failed[1][1] = to_change[1].old
    /\ Len(renamed) = 1 /\ renamed[1] = <<to_change[2].old, to_change[2].new>>

====
